---- MODULE Spec2Model ----
(***************************************************************************)
(* Model of the lumina-theme editor's constants module                     *)
(* (src/src/constants/index.ts) and of the syntax preview component        *)
(* (src/src/components/SyntaxHighlighter.tsx).                             *)
(*                                                                         *)
(* The state is the single in-memory ThemeParameters value, the selected   *)
(* theme and flavor, the preset table, and what the last render produced:  *)
(* for every slider the gradient and preview returned by its generator,    *)
(* and for the syntax preview the code example, highlighter language and   *)
(* palette slots it used.  The colour functions of utils/colorUtils.ts are *)
(* kept as uninterpreted applications (the function name and the argument  *)
(* values it is called with).                                              *)
(***************************************************************************)
EXTENDS Integers, Sequences, FiniteSets, TLC

VARIABLES themeData, theme, flavor, params, edits, lastChange,
          gradients, previews, syntax, snap

vars == <<themeData, theme, flavor, params, edits, lastChange,
          gradients, previews, syntax, snap>>

(***************************************************************************)
(* Bounds                                                                  *)
(***************************************************************************)
\* number of slider changes explored after a preset selection
MaxEdits == 2

(***************************************************************************)
(* JavaScript primitives used by the code                                  *)
(***************************************************************************)
Undefined == "undefined"

\* a % b of JavaScript: the result takes the sign of the dividend
JsMod(a, b) == IF a >= 0 THEN a % b ELSE 0 - ((0 - a) % b)

\* x || d on a number: 0 is falsy
NumOr(x, d) == IF x = 0 THEN d ELSE x

\* x || d on a string or undefined: undefined and '' are falsy
StrOr(x, d) == IF x = Undefined \/ x = "" THEN d ELSE x

\* obj[key] on a Record<string, string>
Lookup(obj, key) == IF key \in DOMAIN obj THEN obj[key] ELSE Undefined

(***************************************************************************)
(* constants/index.ts: preset table                                        *)
(***************************************************************************)
RAW_THEME_DATA_wrong ==
  [midnight |->
     [name |-> "Lumina Midnight", bgHue |-> 270, bgSat |-> 25, bgLight |-> 6,
      flavors |->
        [muted    |-> [accentHue |-> 0, accentSat |-> 85, accentLight |-> 75, commentLight |-> 55],
         balanced |-> [accentHue |-> 0, accentSat |-> 95, accentLight |-> 60, commentLight |-> 55],
         bold     |-> [accentHue |-> 0, accentSat |-> 100, accentLight |-> 60, commentLight |-> 60]]],
   twilight |->
     [name |-> "Lumina Twilight", bgHue |-> 242, bgSat |-> 40, bgLight |-> 12,
      flavors |->
        [muted    |-> [accentHue |-> 0, accentSat |-> 85, accentLight |-> 75, commentLight |-> 55],
         balanced |-> [accentHue |-> 0, accentSat |-> 90, accentLight |-> 65, commentLight |-> 55],
         bold     |-> [accentHue |-> 0, accentSat |-> 95, accentLight |-> 55, commentLight |-> 60]]],
   dawn |->
     [name |-> "Lumina Dawn", bgHue |-> 345, bgSat |-> 45, bgLight |-> 15,
      flavors |->
        [muted    |-> [accentHue |-> 15, accentSat |-> 85, accentLight |-> 75, commentLight |-> 55],
         balanced |-> [accentHue |-> 15, accentSat |-> 95, accentLight |-> 60, commentLight |-> 55],
         bold     |-> [accentHue |-> 15, accentSat |-> 100, accentLight |-> 50, commentLight |-> 60]]],
   noon |->
     [name |-> "Lumina Noon", bgHue |-> 50, bgSat |-> 100, bgLight |-> 98,
      flavors |->
        [muted    |-> [accentHue |-> -15, accentSat |-> 85, accentLight |-> 60, commentLight |-> 50],
         balanced |-> [accentHue |-> -15, accentSat |-> 90, accentLight |-> 50, commentLight |-> 40],
         bold     |-> [accentHue |-> -15, accentSat |-> 95, accentLight |-> 40, commentLight |-> 30]]]]

RAW_THEME_DATA ==
  [midnight |->
     [name |-> "Lumina Midnight", bgHue |-> 270, bgSat |-> 25, bgLight |-> 6,
      flavors |->
        [muted    |-> [accentHue |-> 0, accentSat |-> 85, accentLight |-> 75, commentLight |-> 55],
         balanced |-> [accentHue |-> 0, accentSat |-> 95, accentLight |-> 60, commentLight |-> 55],
         bold     |-> [accentHue |-> 0, accentSat |-> 100, accentLight |-> 50, commentLight |-> 60]]],
   twilight |->
     [name |-> "Lumina Twilight", bgHue |-> 242, bgSat |-> 40, bgLight |-> 12,
      flavors |->
        [muted    |-> [accentHue |-> 0, accentSat |-> 85, accentLight |-> 75, commentLight |-> 55],
         balanced |-> [accentHue |-> 0, accentSat |-> 90, accentLight |-> 65, commentLight |-> 55],
         bold     |-> [accentHue |-> 0, accentSat |-> 95, accentLight |-> 55, commentLight |-> 60]]],
   dawn |->
     [name |-> "Lumina Dawn", bgHue |-> 345, bgSat |-> 45, bgLight |-> 15,
      flavors |->
        [muted    |-> [accentHue |-> 15, accentSat |-> 85, accentLight |-> 75, commentLight |-> 55],
         balanced |-> [accentHue |-> 15, accentSat |-> 95, accentLight |-> 60, commentLight |-> 55],
         bold     |-> [accentHue |-> 15, accentSat |-> 100, accentLight |-> 50, commentLight |-> 60]]],
   noon |->
     [name |-> "Lumina Noon", bgHue |-> 50, bgSat |-> 100, bgLight |-> 98,
      flavors |->
        [muted    |-> [accentHue |-> -15, accentSat |-> 85, accentLight |-> 60, commentLight |-> 50],
         balanced |-> [accentHue |-> -15, accentSat |-> 90, accentLight |-> 50, commentLight |-> 40],
         bold     |-> [accentHue |-> -15, accentSat |-> 95, accentLight |-> 40, commentLight |-> 30]]]]

getAllThemeKeys == <<"midnight", "twilight", "dawn", "noon">>
getAllFlavorKeys == <<"muted", "balanced", "bold">>

ThemeKeys == {getAllThemeKeys[i] : i \in DOMAIN getAllThemeKeys}
FlavorKeys == {getAllFlavorKeys[i] : i \in DOMAIN getAllFlavorKeys}

\* a plausible slip: bgSat copied from the lightness field
getBaseTheme_wrong(key) ==
  LET data == themeData[key] IN
  [name    |-> data.name,
   bgHue   |-> data.bgHue,
   bgSat   |-> data.bgLight,
   bgLight |-> data.bgLight]

getBaseTheme(key) ==
  LET data == themeData[key] IN
  [name    |-> data.name,
   bgHue   |-> data.bgHue,
   bgSat   |-> data.bgSat,
   bgLight |-> data.bgLight]

(***************************************************************************)
(* utils/colorUtils.ts: uninterpreted applications                         *)
(***************************************************************************)
generateHueGradient == <<"generateHueGradient">>
generateAccentHueGradient(base, lo, hi) == <<"generateAccentHueGradient", base, lo, hi>>
generateSaturationGradient(hue) == <<"generateSaturationGradient", hue>>
generateLightnessGradient(hue, sat) == <<"generateLightnessGradient", hue, sat>>
hslToRgb(h, s, l) == <<"hslToRgb", h, s, l>>

(***************************************************************************)
(* constants/index.ts: SLIDER_GENERATORS                                   *)
(***************************************************************************)
ParamNames == {"bgHue", "bgSat", "bgLight", "accentHue", "accentSat",
               "accentLight", "commentLight"}

bgHueGradient(p) == generateHueGradient

bgSatGradient(p) == generateSaturationGradient(NumOr(p.bgHue, 0))

bgLightGradient(p) ==
  generateLightnessGradient(NumOr(p.bgHue, 0), NumOr(p.bgSat, 50))

accentHueGradient(p) == generateAccentHueGradient(0, -180, 180)

accentSatGradient(p) ==
  LET accentHue == JsMod(0 + NumOr(p.accentHue, 0) + 360, 360)
  IN generateSaturationGradient(accentHue)

\* a stale closure: the generator reads the parameters of the previous render
accentLightGradient_stale(p) ==
  LET accentHue == JsMod(0 + NumOr(params.accentHue, 0) + 360, 360)
  IN generateLightnessGradient(accentHue, NumOr(params.accentSat, 70))

accentLightGradient(p) ==
  LET accentHue == JsMod(0 + NumOr(p.accentHue, 0) + 360, 360)
  IN generateLightnessGradient(accentHue, NumOr(p.accentSat, 70))

\* a plausible slip: the light/dark test made with >= instead of >
commentLightGradient_ge(p) ==
  LET isLight == NumOr(p.bgLight, 50) >= 50
      commentHue == JsMod(NumOr(p.bgHue, 0) + (IF isLight THEN 180 ELSE 0) + 360, 360)
  IN generateLightnessGradient(commentHue, 15)

commentLightGradient(p) ==
  LET isLight == NumOr(p.bgLight, 50) > 50
      commentHue == JsMod(NumOr(p.bgHue, 0) + (IF isLight THEN 180 ELSE 0) + 360, 360)
  IN generateLightnessGradient(commentHue, 15)

\* SLIDER_GENERATORS[key].gradient(p)
SLIDER_GENERATORS_gradient(key, p) ==
  CASE key = "bgHue"        -> bgHueGradient(p)
    [] key = "bgSat"        -> bgSatGradient(p)
    [] key = "bgLight"      -> bgLightGradient(p)
    [] key = "accentHue"    -> accentHueGradient(p)
    [] key = "accentSat"    -> accentSatGradient(p)
    [] key = "accentLight"  -> accentLightGradient(p)
    [] key = "commentLight" -> commentLightGradient(p)

\* the value a generator entry without a preview function yields
NoPreview == [defined |-> FALSE]

bgHuePreview(value) ==
  [defined |-> TRUE,
   color   |-> hslToRgb(value, 80, 60),
   label   |-> ToString(value) \o "°"]

accentHuePreview(value) ==
  [defined |-> TRUE,
   color   |-> hslToRgb(JsMod(0 + value + 360, 360), 80, 60),
   label   |-> "Red + " \o (IF value > 0 THEN "+" ELSE "") \o ToString(value)
               \o "° = " \o ToString(JsMod(0 + value + 360, 360)) \o "°"]

\* a plausible slip: the accentHue entry loses its preview function
SLIDER_GENERATORS_preview_missing(key, value, p) ==
  CASE key = "bgHue" -> bgHuePreview(value)
    [] OTHER         -> NoPreview

\* SLIDER_GENERATORS[key].preview?.(value, p)
SLIDER_GENERATORS_preview(key, value, p) ==
  CASE key = "bgHue"     -> bgHuePreview(value)
    [] key = "accentHue" -> accentHuePreview(value)
    [] OTHER             -> NoPreview

(***************************************************************************)
(* constants/index.ts: COLOR_GROUPS, TABS, SLIDER_CONFIGS                  *)
(***************************************************************************)
\* a plausible slip: base0F entered twice, base17 lost
COLOR_GROUPS_dup ==
  [main   |-> <<[key |-> "base00", name |-> "Background"],
                [key |-> "base01", name |-> "Alt Background"],
                [key |-> "base02", name |-> "Selection"],
                [key |-> "base03", name |-> "Comments"],
                [key |-> "base04", name |-> "Secondary Text"],
                [key |-> "base05", name |-> "Main Text"],
                [key |-> "base06", name |-> "Light Surface"],
                [key |-> "base07", name |-> "Light Accent"]>>,
   accent |-> <<[key |-> "base08", name |-> "Red"],
                [key |-> "base09", name |-> "Orange"],
                [key |-> "base0A", name |-> "Yellow"],
                [key |-> "base0B", name |-> "Green"],
                [key |-> "base0C", name |-> "Cyan"],
                [key |-> "base0D", name |-> "Blue"],
                [key |-> "base0E", name |-> "Purple"],
                [key |-> "base0F", name |-> "Pink"]>>,
   muted  |-> <<[key |-> "base10", name |-> "Muted Red"],
                [key |-> "base11", name |-> "Muted Orange"],
                [key |-> "base12", name |-> "Muted Yellow"],
                [key |-> "base13", name |-> "Muted Green"],
                [key |-> "base14", name |-> "Muted Cyan"],
                [key |-> "base15", name |-> "Muted Blue"],
                [key |-> "base16", name |-> "Muted Purple"],
                [key |-> "base0F", name |-> "Muted Pink"]>>]

COLOR_GROUPS ==
  [main   |-> <<[key |-> "base00", name |-> "Background"],
                [key |-> "base01", name |-> "Alt Background"],
                [key |-> "base02", name |-> "Selection"],
                [key |-> "base03", name |-> "Comments"],
                [key |-> "base04", name |-> "Secondary Text"],
                [key |-> "base05", name |-> "Main Text"],
                [key |-> "base06", name |-> "Light Surface"],
                [key |-> "base07", name |-> "Light Accent"]>>,
   accent |-> <<[key |-> "base08", name |-> "Red"],
                [key |-> "base09", name |-> "Orange"],
                [key |-> "base0A", name |-> "Yellow"],
                [key |-> "base0B", name |-> "Green"],
                [key |-> "base0C", name |-> "Cyan"],
                [key |-> "base0D", name |-> "Blue"],
                [key |-> "base0E", name |-> "Purple"],
                [key |-> "base0F", name |-> "Pink"]>>,
   muted  |-> <<[key |-> "base10", name |-> "Muted Red"],
                [key |-> "base11", name |-> "Muted Orange"],
                [key |-> "base12", name |-> "Muted Yellow"],
                [key |-> "base13", name |-> "Muted Green"],
                [key |-> "base14", name |-> "Muted Cyan"],
                [key |-> "base15", name |-> "Muted Blue"],
                [key |-> "base16", name |-> "Muted Purple"],
                [key |-> "base17", name |-> "Muted Pink"]>>]

TABS ==
  <<[id |-> "colors",     label |-> "Colors"],
    [id |-> "ui-preview", label |-> "UI Preview"],
    [id |-> "javascript", label |-> "JavaScript"],
    [id |-> "python",     label |-> "Python"],
    [id |-> "cpp",        label |-> "C++"],
    [id |-> "terminal",   label |-> "Terminal"]>>

\* the values of type TabKey
TabKeys == {TABS[i].id : i \in DOMAIN TABS}

\* a plausible slip: the saturation slider's upper end typed as 1000
SLIDER_CONFIGS_wide ==
  [main    |-> <<[key |-> "bgHue",   min |-> 0, max |-> 360, type |-> "hue"],
                 [key |-> "bgSat",   min |-> 0, max |-> 100, type |-> "saturation"],
                 [key |-> "bgLight", min |-> 0, max |-> 100, type |-> "lightness"]>>,
   accent  |-> <<[key |-> "accentHue",   min |-> -180, max |-> 180, type |-> "hue"],
                 [key |-> "accentSat",   min |-> 0, max |-> 1000, type |-> "saturation"],
                 [key |-> "accentLight", min |-> 0, max |-> 100, type |-> "lightness"]>>,
   comment |-> <<[key |-> "commentLight", min |-> 0, max |-> 100, type |-> "lightness"]>>]

SLIDER_CONFIGS ==
  [main    |-> <<[key |-> "bgHue",   min |-> 0, max |-> 360, type |-> "hue"],
                 [key |-> "bgSat",   min |-> 0, max |-> 100, type |-> "saturation"],
                 [key |-> "bgLight", min |-> 0, max |-> 100, type |-> "lightness"]>>,
   accent  |-> <<[key |-> "accentHue",   min |-> -180, max |-> 180, type |-> "hue"],
                 [key |-> "accentSat",   min |-> 0, max |-> 100, type |-> "saturation"],
                 [key |-> "accentLight", min |-> 0, max |-> 100, type |-> "lightness"]>>,
   comment |-> <<[key |-> "commentLight", min |-> 0, max |-> 100, type |-> "lightness"]>>]

\* every slider the configuration lists
Sliders ==
  UNION {{SLIDER_CONFIGS[g][i] : i \in DOMAIN SLIDER_CONFIGS[g]} : g \in DOMAIN SLIDER_CONFIGS}

\* the slider positions explored: both ends, the middle and the step above it
SliderValues(cfg) ==
  LET mid == (cfg.min + cfg.max) \div 2
  IN {v \in {cfg.min, mid, mid + 1, cfg.max} : cfg.min <= v /\ v <= cfg.max}

(***************************************************************************)
(* components/SyntaxHighlighter.tsx                                        *)
(***************************************************************************)
\* createBase24Theme: the palette slot each style entry reads
createBase24Theme ==
  [codeColor        |-> "base05",
   codeBackground   |-> "base00",
   preBackground    |-> "base00",
   preBorder        |-> "base02",
   comment          |-> "base03",
   string           |-> "base0B",
   number           |-> "base09",
   boolean          |-> "base09",
   keyword          |-> "base0E",
   function         |-> "base0D",
   functionName     |-> "base0D",
   variable         |-> "base08",
   property         |-> "base08",
   className        |-> "base0A",
   operator         |-> "base05",
   punctuation      |-> "base05"]

\* CODE_EXAMPLES: every example is represented by its first line (the prompt
\* glyph of the terminal example is written >)
CODE_EXAMPLES ==
  [javascript |-> "// React Hook with State Management",
   python     |-> "# Data Processing Pipeline",
   cpp        |-> "// Modern C++ with Smart Pointers",
   terminal   |-> "> git status"]

languageMap ==
  [terminal   |-> "bash",
   cpp        |-> "cpp",
   javascript |-> "javascript",
   python     |-> "python"]

\* a plausible slip: the fallback to the JavaScript example is left out
SyntaxPreview_nofallback(language) ==
  [language       |-> language,
   code           |-> Lookup(CODE_EXAMPLES, language),
   syntaxLanguage |-> StrOr(Lookup(languageMap, language), language),
   slots          |-> {createBase24Theme[e] : e \in DOMAIN createBase24Theme}]

\* SyntaxPreview({colors, language}): what is handed to the highlighter
SyntaxPreview(language) ==
  [language       |-> language,
   code           |-> StrOr(Lookup(CODE_EXAMPLES, language), CODE_EXAMPLES.javascript),
   syntaxLanguage |-> StrOr(Lookup(languageMap, language), language),
   slots          |-> {createBase24Theme[e] : e \in DOMAIN createBase24Theme}]

\* no syntax preview rendered yet
NoRender == [language |-> Undefined]

(***************************************************************************)
(* State machine: one step per user input event                            *)
(***************************************************************************)
\* the parameters a preset and flavor stand for
PresetParams(t, f) ==
  LET base == getBaseTheme(t)
      fl   == themeData[t].flavors[f]
  IN [bgHue        |-> base.bgHue,
      bgSat        |-> base.bgSat,
      bgLight      |-> base.bgLight,
      accentHue    |-> fl.accentHue,
      accentSat    |-> fl.accentSat,
      accentLight  |-> fl.accentLight,
      commentLight |-> fl.commentLight]

\* the slider tracks and previews drawn for the parameters p
RenderGradients(p) == [k \in ParamNames |-> SLIDER_GENERATORS_gradient(k, p)]
RenderPreviews(p) == [k \in ParamNames |-> SLIDER_GENERATORS_preview(k, p[k], p)]

NoSnap == [taken |-> FALSE]

Init ==
  /\ themeData = RAW_THEME_DATA
  /\ theme \in ThemeKeys
  /\ flavor \in FlavorKeys
  /\ params = PresetParams(theme, flavor)
  /\ edits = 0
  /\ lastChange = "init"
  /\ gradients = RenderGradients(params)
  /\ previews = RenderPreviews(params)
  /\ syntax = NoRender
  /\ snap = NoSnap

\* the user picks a preset and flavor
SelectPreset(t, f) ==
  /\ theme' = t
  /\ flavor' = f
  /\ params' = PresetParams(t, f)
  /\ edits' = 0
  /\ lastChange' = "selectPreset"
  /\ gradients' = RenderGradients(params')
  /\ previews' = RenderPreviews(params')
  /\ UNCHANGED <<themeData, syntax>>

\* the user drags the slider cfg to the position v
SetSlider(cfg, v) ==
  /\ edits < MaxEdits
  /\ cfg.min <= v /\ v <= cfg.max
  /\ params' = [params EXCEPT ![cfg.key] = v]
  /\ edits' = edits + 1
  /\ lastChange' = "setSlider"
  /\ gradients' = RenderGradients(params')
  /\ previews' = RenderPreviews(params')
  /\ UNCHANGED <<themeData, theme, flavor, syntax>>

\* the syntax preview is rendered for the tab key `language`
RenderSyntaxPreview(language) ==
  /\ syntax' = SyntaxPreview(language)
  /\ UNCHANGED <<themeData, theme, flavor, params, edits, lastChange,
                 gradients, previews>>

Select == \E t \in ThemeKeys, f \in FlavorKeys : SelectPreset(t, f)
Slide == \E cfg \in Sliders : \E v \in SliderValues(cfg) : SetSlider(cfg, v)
Preview == \E language \in TabKeys : RenderSyntaxPreview(language)

Next ==
  \/ Select /\ UNCHANGED snap
  \/ Slide /\ UNCHANGED snap
  \/ Preview /\ UNCHANGED snap

Spec == Init /\ [][Next]_vars

(***************************************************************************)
(* The same machine with a remembered render: right after a selection the  *)
(* parameters and gradients on screen may be remembered (snap, a history   *)
(* variable), to be compared with what a later history draws for the same  *)
(* parameters.                                                             *)
(***************************************************************************)
Remember ==
  snap' \in {snap, [taken |-> TRUE, params |-> params', gradients |-> gradients']}

NextHist ==
  \/ Select /\ Remember
  \/ Slide /\ UNCHANGED snap

SpecHist == Init /\ [][NextHist]_vars

(***************************************************************************)
(* Properties                                                              *)
(***************************************************************************)
SliderChanged == lastChange = "setSlider"
PresetSelected == lastChange = "selectPreset"

\* C1: the accentLight gradient is the lightness gradient at the current
\* accent hue, (accentHue + 360) mod 360, and at the current accentSat,
\* never at a substitute saturation, for every in-range accentHue and
\* accentSat, accentSat = 0 included.
C1_AccentLightAtCurrentHueAndSat ==
  gradients.accentLight =
    generateLightnessGradient((params.accentHue + 360) % 360, params.accentSat)

\* C2: the bgSat gradient is the saturation gradient at the current bgHue and
\* the bgLight gradient is the lightness gradient at the current bgHue and
\* the current bgSat, with no default substituted, bgHue = 0 and bgSat = 0
\* included.
C2_BackgroundGradientsAtCurrentValues ==
  /\ gradients.bgSat = generateSaturationGradient(params.bgHue)
  /\ gradients.bgLight = generateLightnessGradient(params.bgHue, params.bgSat)

C4_MidnightBold ==
  (PresetSelected /\ theme = "midnight" /\ flavor = "bold") =>
    params = [bgHue |-> 270, bgSat |-> 25, bgLight |-> 6,
              accentHue |-> 0, accentSat |-> 100, accentLight |-> 50,
              commentLight |-> 60]

C4_Witness == PresetSelected /\ theme = "midnight" /\ flavor = "bold"

\* C5 as stated: every field lies in its documented bounds, bgHue in
\* [0,360) with 360 excluded.
C5_DocumentedBounds ==
  /\ 0 <= params.bgHue /\ params.bgHue < 360
  /\ \A k \in {"bgSat", "bgLight", "accentSat", "accentLight", "commentLight"} :
       0 <= params[k] /\ params[k] <= 100
  /\ -180 <= params.accentHue /\ params.accentHue <= 180

\* C5 amended: every field lies in its slider's range: bgHue in [0,360]
\* with 360 included, bgSat, bgLight, accentSat, accentLight and
\* commentLight in [0,100], accentHue in [-180,180].
C5_SliderBounds ==
  /\ 0 <= params.bgHue /\ params.bgHue <= 360
  /\ \A k \in {"bgSat", "bgLight", "accentSat", "accentLight", "commentLight"} :
       0 <= params[k] /\ params[k] <= 100
  /\ -180 <= params.accentHue /\ params.accentHue <= 180

\* C5 witness: a slider has been dragged to the upper end of its range
C5_Witness == SliderChanged /\ params.accentSat = 100 /\ edits = 1

GradientFunctions ==
  {"generateHueGradient", "generateAccentHueGradient",
   "generateSaturationGradient", "generateLightnessGradient"}

\* C6 as stated: for every one of the seven parameter names the generator
\* produces a gradient and a preview {color, label} for the current value.
C6_EveryGeneratorHasPreview ==
  \A k \in ParamNames :
    /\ gradients[k][1] \in GradientFunctions
    /\ previews[k].defined

\* C6 amended: every one of the seven generators produces a gradient; the
\* bgHue and accentHue generators also produce a preview {color, label} for
\* the current value, and the other five produce no preview.
C6_PreviewOnlyForHues ==
  /\ DOMAIN gradients = ParamNames
  /\ \A k \in ParamNames : gradients[k][1] \in GradientFunctions
  /\ \A k \in ParamNames : previews[k].defined <=> k \in {"bgHue", "accentHue"}
  /\ previews.bgHue.color = hslToRgb(params.bgHue, 80, 60)
  /\ previews.bgHue.label = ToString(params.bgHue) \o "°"
  /\ previews.accentHue.color = hslToRgb((params.accentHue + 360) % 360, 80, 60)
  /\ DOMAIN previews.accentHue = {"defined", "color", "label"}

\* C6 witness: after a change of the accent hue slider, its preview is
\* there and the saturation slider has none
C6_Witness ==
  /\ SliderChanged
  /\ params.accentHue = 180
  /\ previews.accentHue.label = "Red + +180° = 180°"
  /\ ~previews.accentSat.defined

\* C7: rendered with a key that has no code example the syntax preview shows
\* the JavaScript example; rendered with javascript, python, cpp or terminal
\* it shows that key's own example.
C7_FallbackToJavaScript ==
  syntax.language # Undefined =>
    syntax.code =
      CASE syntax.language = "javascript" -> "// React Hook with State Management"
        [] syntax.language = "python"     -> "# Data Processing Pipeline"
        [] syntax.language = "cpp"        -> "// Modern C++ with Smart Pointers"
        [] syntax.language = "terminal"   -> "> git status"
        [] OTHER                          -> "// React Hook with State Management"

C7_Witness ==
  /\ syntax.language = "ui-preview"
  /\ syntax.code = CODE_EXAMPLES.javascript

HexDigits == {"0", "1", "2", "3", "4", "5", "6", "7", "8", "9",
              "A", "B", "C", "D", "E", "F"}

\* base00..base0F and base10..base17
Base24Keys ==
  {"base0" \o d : d \in HexDigits} \cup
  {"base1" \o d : d \in {"0", "1", "2", "3", "4", "5", "6", "7"}}

GroupKeys(g) == {COLOR_GROUPS[g][i].key : i \in DOMAIN COLOR_GROUPS[g]}

\* C8: the groups main, accent and muted list each of the 24 Base24 keys
\* base00..base17 exactly once, eight per group, and every slot the syntax
\* theme reads is one of the 24 keys.
C8_PaletteKeys ==
  /\ Cardinality(Base24Keys) = 24
  /\ DOMAIN COLOR_GROUPS = {"main", "accent", "muted"}
  /\ \A g \in DOMAIN COLOR_GROUPS :
       Len(COLOR_GROUPS[g]) = 8 /\ Cardinality(GroupKeys(g)) = 8
  /\ \A g, h \in DOMAIN COLOR_GROUPS : g # h => GroupKeys(g) \cap GroupKeys(h) = {}
  /\ UNION {GroupKeys(g) : g \in DOMAIN COLOR_GROUPS} = Base24Keys
  /\ syntax.language # Undefined => syntax.slots \subseteq Base24Keys

C8_Witness ==
  /\ syntax.language = "python"
  /\ "base0E" \in syntax.slots

\* C9: the commentLight gradient is the lightness gradient at saturation 15
\* and at the hue bgHue mod 360 when bgLight <= 50, (bgHue + 180) mod 360
\* when bgLight > 50; the hue passed is in [0,360).
C9_CommentLightHue ==
  LET hue == IF params.bgLight <= 50
               THEN params.bgHue % 360
               ELSE (params.bgHue + 180) % 360
  IN /\ gradients.commentLight = generateLightnessGradient(hue, 15)
     /\ gradients.commentLight[2] \in 0..359

\* C9 witness: the background lightness slider has been set to 0
C9_Witness == SliderChanged /\ params.bgLight = 0

\* the seven fields of a preset and flavor, read off the table
TableParams(t, f) ==
  [bgHue        |-> RAW_THEME_DATA[t].bgHue,
   bgSat        |-> RAW_THEME_DATA[t].bgSat,
   bgLight      |-> RAW_THEME_DATA[t].bgLight,
   accentHue    |-> RAW_THEME_DATA[t].flavors[f].accentHue,
   accentSat    |-> RAW_THEME_DATA[t].flavors[f].accentSat,
   accentLight  |-> RAW_THEME_DATA[t].flavors[f].accentLight,
   commentLight |-> RAW_THEME_DATA[t].flavors[f].commentLight]

\* a selection that keeps the theme of the selection (or start) before it
FlavorSwitch ==
  /\ lastChange \in {"init", "selectPreset"}
  /\ lastChange' = "selectPreset"
  /\ theme' = theme

====
